---- MODULE Spec2Model ----
(***************************************************************************)
(* A model of scripts/auto_setup_orchs.py: the clone / detect / build /    *)
(* report pipeline of the PHOENIX ORCH repository integrator.              *)
(*                                                                         *)
(* Strings the code inspects (URLs, repository names, skip filters) are    *)
(* sequences of one-character strings, so that strip, split, endswith,     *)
(* the regular-expression fold and the substring test are computed.        *)
(* The outside world (GitHub API answers, exit codes and output of the     *)
(* commands run, tools on PATH, what a checkout contains) is chosen        *)
(* nondeterministically where the code observes it.                        *)
(*                                                                         *)
(* Spec        one run of main()                                           *)
(* SpecName    _parse_repo_name applied to bounded URL strings             *)
(* SpecDetect  _detect_repo_type applied to every directory content        *)
(* SpecGithub  _parse_github_owner_repo applied to bounded URLs            *)
(* SpecRust    _rust_build over the results of the cargo commands          *)
(* SpecPython  _python_build over Python checkouts and their environment   *)
(***************************************************************************)
EXTENDS Integers, Sequences, FiniteSets, TLC

(***************************************************************************)
(* Bounds of the model.                                                    *)
(***************************************************************************)
\* raw input entries (config lines plus positional arguments) of one run
MaxUrls == 2
\* tokens concatenated into a URL string for SpecName
MaxTokens == 4
\* path segments of a URL for SpecGithub
MaxSegs == 3

(***************************************************************************)
(* Characters and strings.                                                 *)
(***************************************************************************)
Lower == {"a","b","c","d","e","f","g","h","i","j","k","l","m","n","o","p","q","r","s","t","u","v","w","x","y","z"}
Upper == {"A","B","C","D","E","F","G","H","I","J","K","L","M","N","O","P","Q","R","S","T","U","V","W","X","Y","Z"}
Digit == {"0","1","2","3","4","5","6","7","8","9"}
\* what str.strip() removes
Whitespace == {" ", "\t", "\n", "\r"}
\* the characters the class [A-Za-z0-9._-] accepts
SafeChar == Lower \cup Upper \cup Digit \cup {".", "_", "-"}

GitSuffix == <<".","g","i","t">>
DefaultName == <<"r","e","p","o">>

\* s[from..] and s[..to], empty when out of range
Drop(s, n) == IF n >= Len(s) THEN <<>> ELSE SubSeq(s, n + 1, Len(s))
Take(s, n) == IF n <= 0 THEN <<>> ELSE SubSeq(s, 1, IF n > Len(s) THEN Len(s) ELSE n)

RECURSIVE LStrip(_, _)
LStrip(s, cs) == IF s # <<>> /\ Head(s) \in cs THEN LStrip(Tail(s), cs) ELSE s

RECURSIVE RStrip(_, _)
RStrip(s, cs) ==
    IF s # <<>> /\ s[Len(s)] \in cs THEN RStrip(Take(s, Len(s) - 1), cs) ELSE s

\* str.strip()
Strip(s) == RStrip(LStrip(s, Whitespace), Whitespace)

\* str.endswith / str.startswith
EndsWith(s, suf) == Len(suf) <= Len(s) /\ Drop(s, Len(s) - Len(suf)) = suf
StartsWith(s, pre) == Len(pre) <= Len(s) /\ Take(s, Len(pre)) = pre

\* `sub in s`
Contains(s, sub) ==
    \E i \in 0..(Len(s) - Len(sub)) : SubSeq(s, i + 1, i + Len(sub)) = sub

\* position of the first character of s that is in cs, 0 when none
IndexOfAny(s, cs) ==
    IF \E i \in 1..Len(s) : s[i] \in cs
    THEN CHOOSE i \in 1..Len(s) : s[i] \in cs /\ \A j \in 1..(i - 1) : s[j] \notin cs
    ELSE 0

\* str.split(sep): the pieces between occurrences of the character sep
RECURSIVE Split(_, _)
Split(s, sep) ==
    LET i == IndexOfAny(s, {sep})
    IN  IF i = 0 THEN <<s>> ELSE <<Take(s, i - 1)>> \o Split(Drop(s, i), sep)

\* re.sub(r"[^A-Za-z0-9._-]+", "_", s): every maximal run of characters
\* outside the class becomes one "_"
RECURSIVE FoldUnsafe(_)
FoldUnsafe(s) ==
    IF s = <<>> THEN <<>>
    ELSE IF Head(s) \in SafeChar THEN <<Head(s)>> \o FoldUnsafe(Tail(s))
    ELSE <<"_">> \o FoldUnsafe(LStrip(s, {c \in {s[i] : i \in 1..Len(s)} : c \notin SafeChar}))

\* the ".git" suffix is cut without asking whether it is there
ParseRepoName_NoSuffixGuard(url) ==
    LET cleaned == RStrip(Strip(url), {"/"})
        parts   == Split(cleaned, "/")
        last    == parts[Len(parts)]
        name    == Take(last, Len(last) - Len(GitSuffix))
        folded  == FoldUnsafe(name)
    IN  IF folded = <<>> THEN DefaultName ELSE folded

\* the fallback name is forgotten
ParseRepoName_NoDefault(url) ==
    LET cleaned == RStrip(Strip(url), {"/"})
        parts   == Split(cleaned, "/")
        last    == parts[Len(parts)]
        name    == IF EndsWith(last, GitSuffix)
                   THEN Take(last, Len(last) - Len(GitSuffix)) ELSE last
    IN  FoldUnsafe(name)

\* _parse_repo_name
ParseRepoName(url) ==
    LET cleaned == RStrip(Strip(url), {"/"})
        parts   == Split(cleaned, "/")
        last    == parts[Len(parts)]
        name    == IF EndsWith(last, GitSuffix)
                   THEN Take(last, Len(last) - Len(GitSuffix)) ELSE last
        folded  == FoldUnsafe(name)
    IN  IF folded = <<>> THEN DefaultName ELSE folded

(***************************************************************************)
(* GitHub URL parsing (urllib.parse.urlparse, as far as the code reads     *)
(* its result: scheme, netloc, path).                                      *)
(***************************************************************************)
LowerOf == "A" :> "a" @@ "B" :> "b" @@ "C" :> "c" @@ "D" :> "d" @@ "E" :> "e" @@ "F" :> "f" @@ "G" :> "g" @@ "H" :> "h" @@ "I" :> "i" @@ "J" :> "j" @@ "K" :> "k" @@ "L" :> "l" @@ "M" :> "m" @@ "N" :> "n" @@ "O" :> "o" @@ "P" :> "p" @@ "Q" :> "q" @@ "R" :> "r" @@ "S" :> "s" @@ "T" :> "t" @@ "U" :> "u" @@ "V" :> "v" @@ "W" :> "w" @@ "X" :> "x" @@ "Y" :> "y" @@ "Z" :> "z"

\* str.lower()
ToLower(s) == [i \in 1..Len(s) |-> IF s[i] \in Upper THEN LowerOf[s[i]] ELSE s[i]]

Http == <<"h","t","t","p">>
Https == <<"h","t","t","p","s">>
GithubHost == <<"g","i","t","h","u","b",".","c","o","m">>
\* urllib.parse.scheme_chars
SchemeChars == Lower \cup Upper \cup Digit \cup {"+", "-", "."}

\* s up to (not including) the first character in cs; all of s when none
UpTo(s, cs) == LET i == IndexOfAny(s, cs) IN IF i = 0 THEN s ELSE Take(s, i - 1)

\* position of the last occurrence of c in s, 0 when none
LastIndexOf(s, c) ==
    IF \E i \in 1..Len(s) : s[i] = c
    THEN CHOOSE i \in 1..Len(s) : s[i] = c /\ \A j \in (i + 1)..Len(s) : s[j] # c
    ELSE 0

\* urlparse(u): [scheme, netloc, path]
UrlParse(u) ==
    LET i         == IndexOfAny(u, {":"})
        hasScheme == /\ i > 1
                     /\ u[1] \in Lower \cup Upper
                     /\ \A j \in 1..(i - 1) : u[j] \in SchemeChars
        scheme    == IF hasScheme THEN ToLower(Take(u, i - 1)) ELSE <<>>
        rest      == IF hasScheme THEN Drop(u, i) ELSE u
        hasNetloc == StartsWith(rest, <<"/", "/">>)
        after     == Drop(rest, 2)
        netloc    == IF hasNetloc THEN UpTo(after, {"/", "?", "#"}) ELSE <<>>
        rest2     == IF hasNetloc THEN Drop(after, Len(netloc)) ELSE rest
        noFrag    == UpTo(rest2, {"#"})
        noQuery   == UpTo(noFrag, {"?"})
        \* _splitparams: ";" parameters of the last path segment (http, https)
        slash     == LastIndexOf(noQuery, "/")
        tailPart  == Drop(noQuery, IF slash = 0 THEN 0 ELSE slash - 1)
        semi      == IndexOfAny(tailPart, {";"})
        path      == IF scheme \in {Http, Https} /\ semi # 0
                     THEN Take(noQuery, Len(noQuery) - Len(tailPart) + semi - 1)
                     ELSE noQuery
    IN  [scheme |-> scheme, netloc |-> netloc, path |-> path]

\* the repository keeps a trailing ".git"
ParseGithubOwnerRepo_KeepGitSuffix(url) ==
    LET u     == UrlParse(Strip(url))
        parts == SelectSeq(Split(RStrip(LStrip(u.path, {"/"}), {"/"}), "/"),
                           LAMBDA p : p # <<>>)
    IN  IF u.scheme \notin {Http, Https} THEN <<>>
        ELSE IF ToLower(u.netloc) # GithubHost THEN <<>>
        ELSE IF Len(parts) < 2 THEN <<>>
        ELSE <<parts[1], parts[2]>>

\* _parse_github_owner_repo: <<owner, repo>>, or <<>> for None
ParseGithubOwnerRepo(url) ==
    LET u     == UrlParse(Strip(url))
        parts == SelectSeq(Split(RStrip(LStrip(u.path, {"/"}), {"/"}), "/"),
                           LAMBDA p : p # <<>>)
        repo  == IF EndsWith(parts[2], GitSuffix)
                 THEN Take(parts[2], Len(parts[2]) - Len(GitSuffix)) ELSE parts[2]
    IN  IF u.scheme \notin {Http, Https} THEN <<>>
        ELSE IF ToLower(u.netloc) # GithubHost THEN <<>>
        ELSE IF Len(parts) < 2 THEN <<>>
        ELSE <<parts[1], repo>>

(***************************************************************************)
(* The CI gate.                                                            *)
(***************************************************************************)
Completed == <<"c","o","m","p","l","e","t","e","d">>
InProgress == <<"i","n","_","p","r","o","g","r","e","s","s">>
Success == <<"s","u","c","c","e","s","s">>
SuccessCaps == <<"S","u","c","c","e","s","s">>
FailureWord == <<"f","a","i","l","u","r","e">>

\* what _github_request_json can return: the HTTP status (0: the request
\* itself failed) and, of the body, the latest run when there is one
HttpStatuses == {0, 200, 404, 500}
NoRuns == [present |-> FALSE, status |-> <<>>, conclusion |-> <<>>]
LatestRuns ==
    {NoRuns} \cup [present : {TRUE}, status : {Completed, InProgress},
                   conclusion : {Success, SuccessCaps, FailureWord, <<>>}]
ApiResponses == [status : HttpStatuses, latest : LatestRuns]
\* the workflow lookup's body is not read; an error answer lists no runs
WorkflowResponses == {r \in ApiResponses : r.latest = NoRuns}
RunsResponses == {r \in ApiResponses : r.status # 200 => r.latest = NoRuns}

\* a note of the gate: its text up to the values formatted into it
GateNote(kind, status, word) == [kind |-> kind, status |-> status, word |-> word]
NoNote == GateNote("", 0, <<>>)

IsHttpError(status) == status # 0 /\ status >= 400

\* a run that is not completed is let through
GithubCiGate_NoCompletedCheck(r1, r2) ==
    LET one == <<[call |-> "workflow", resp |-> r1]>>
        two == Append(one, [call |-> "runs", resp |-> r2])
        res(passed, note, exists, calls) ==
            [passed |-> passed, note |-> note, exists |-> exists, calls |-> calls]
        conclusion == ToLower(r2.latest.conclusion)
    IN  IF r1.status = 404 THEN res(FALSE, GateNote("workflow not found", 0, <<>>), FALSE, one)
        ELSE IF r1.status = 0 THEN res(FALSE, GateNote("GitHub API request failed", 0, <<>>), TRUE, one)
        ELSE IF IsHttpError(r1.status) THEN res(FALSE, GateNote("GitHub API error", r1.status, <<>>), TRUE, one)
        ELSE IF r2.status = 0 THEN res(FALSE, GateNote("GitHub API request failed", 0, <<>>), TRUE, two)
        ELSE IF IsHttpError(r2.status) THEN res(FALSE, GateNote("cannot read workflow runs", r2.status, <<>>), TRUE, two)
        ELSE IF ~r2.latest.present THEN res(FALSE, GateNote("no runs found", 0, <<>>), TRUE, two)
        ELSE IF conclusion # Success THEN res(FALSE, GateNote("latest run did not succeed", 0, conclusion), TRUE, two)
        ELSE res(TRUE, GateNote("latest run success", 0, <<>>), TRUE, two)

\* _github_ci_gate, given what the workflow lookup (r1) and the runs lookup
\* (r2, read only when that call is made) answer:
\* [passed, note, exists] and the API calls made, in order, with their answers
GithubCiGate(r1, r2) ==
    LET one == <<[call |-> "workflow", resp |-> r1]>>
        two == Append(one, [call |-> "runs", resp |-> r2])
        res(passed, note, exists, calls) ==
            [passed |-> passed, note |-> note, exists |-> exists, calls |-> calls]
        conclusion == ToLower(r2.latest.conclusion)
        runStatus  == ToLower(r2.latest.status)
    IN  IF r1.status = 404 THEN res(FALSE, GateNote("workflow not found", 0, <<>>), FALSE, one)
        ELSE IF r1.status = 0 THEN res(FALSE, GateNote("GitHub API request failed", 0, <<>>), TRUE, one)
        ELSE IF IsHttpError(r1.status) THEN res(FALSE, GateNote("GitHub API error", r1.status, <<>>), TRUE, one)
        ELSE IF r2.status = 0 THEN res(FALSE, GateNote("GitHub API request failed", 0, <<>>), TRUE, two)
        ELSE IF IsHttpError(r2.status) THEN res(FALSE, GateNote("cannot read workflow runs", r2.status, <<>>), TRUE, two)
        ELSE IF ~r2.latest.present THEN res(FALSE, GateNote("no runs found", 0, <<>>), TRUE, two)
        ELSE IF runStatus # Completed THEN res(FALSE, GateNote("latest run not completed", 0, runStatus), TRUE, two)
        ELSE IF conclusion # Success THEN res(FALSE, GateNote("latest run did not succeed", 0, conclusion), TRUE, two)
        ELSE res(TRUE, GateNote("latest run success", 0, <<>>), TRUE, two)

\* main, lines 641 and 656: does the gate's answer reject the repository?
GateRejects(mode, gate) ==
    \/ mode = "require" /\ (~gate.exists \/ ~gate.passed)
    \/ mode = "auto" /\ gate.exists /\ ~gate.passed

(***************************************************************************)
(* A checkout: the files in it.  A file is its directory (the names of     *)
(* the directories from the repository root down), its name without the    *)
(* extension, and its extension.  numpyPin says whether a line of          *)
(* requirements.txt matches the pin the pre-flight check looks for.        *)
(***************************************************************************)
File(dir, base, ext) == [dir |-> dir, base |-> base, ext |-> ext]
RootFile(base, ext) == File(<<>>, base, ext)

CargoToml == RootFile("Cargo", ".toml")
PyprojectToml == RootFile("pyproject", ".toml")
RequirementsTxt == RootFile("requirements", ".txt")
SetupPy == RootFile("setup", ".py")
PackageJson == RootFile("package", ".json")
Dockerfile == RootFile("Dockerfile", "")
PoetryLock == RootFile("poetry", ".lock")
Pipfile == RootFile("Pipfile", "")
ReadmeMd == RootFile("README", ".md")

OrchReposDir == <<"o","r","c","h","_","r","e","p","o","s">>
\* _looks_like_python_repo: skip
SkipDirs == { <<".","g","i","t">>, <<"t","a","r","g","e","t">>,
              <<"n","o","d","e","_","m","o","d","u","l","e","s">>,
              <<".","v","e","n","v">>, <<".","v","e","n","v","s">>,
              <<"_","_","p","y","c","a","c","h","e","_","_">> }
\* _looks_like_python_repo: directories deeper than this are not entered
ScanDepth == 3

\* (repo_dir / name).exists() for a file of the repository root
Exists(repo, f) == f \in repo.files

\* _looks_like_python_repo: os.walk from the repository root; a directory is
\* left out, with everything below it, when a part of its path (the parts of
\* repo_dir itself included) is in skip or when it is deeper than ScanDepth
LooksLikePythonRepo(name, repo) ==
    \E f \in repo.files :
        /\ \A i \in 1..Len(f.dir) : f.dir[i] \notin SkipDirs
        /\ OrchReposDir \notin SkipDirs /\ name \notin SkipDirs
        /\ Len(f.dir) <= ScanDepth
        /\ \/ f.ext = ".py"
           \/ \E m \in {RequirementsTxt, PyprojectToml, SetupPy} :
                 f.base = m.base /\ f.ext = m.ext

\* the Python markers are asked for before Cargo.toml
DetectRepoType_PythonFirst(name, repo) ==
    IF Exists(repo, PyprojectToml) \/ Exists(repo, RequirementsTxt) \/ Exists(repo, SetupPy)
    THEN "Python"
    ELSE IF Exists(repo, CargoToml) THEN "Rust"
    ELSE IF Exists(repo, PackageJson) THEN "Node.js"
    ELSE IF Exists(repo, Dockerfile) THEN "Docker"
    ELSE IF LooksLikePythonRepo(name, repo) THEN "Python"
    ELSE "Unknown"

\* _detect_repo_type
DetectRepoType(name, repo) ==
    IF Exists(repo, CargoToml) THEN "Rust"
    ELSE IF Exists(repo, PyprojectToml) \/ Exists(repo, RequirementsTxt) \/ Exists(repo, SetupPy)
    THEN "Python"
    ELSE IF Exists(repo, PackageJson) THEN "Node.js"
    ELSE IF Exists(repo, Dockerfile) THEN "Docker"
    ELSE IF LooksLikePythonRepo(name, repo) THEN "Python"
    ELSE "Unknown"

(***************************************************************************)
(* External commands: what _run returns, the command lines, the errors     *)
(* kept of them.                                                           *)
(***************************************************************************)
\* out[-4000:]
TailLimit == 4000
ExitCodes == {0, 1}
\* the length of the combined output of a command
OutLens == {0, 4001}
\* what a command returns; the output of a command that exits with 0 is
\* read nowhere
RunResults == {r \in [code : ExitCodes, out : OutLens] : r.code = 0 => r.out = 0}
RunOk == [code |-> 0, out |-> 0]

\* a command line: the program and fixed arguments, and the URL and the
\* repository (destination or venv) named in it
Cmd(prog, url, dest) == [prog |-> prog, url |-> url, dest |-> dest]

\* Optional[str] error of a result: None, a fixed message, the gate's note,
\* or the tail of a command's output (its length), behind a fixed prefix
Err(kind, text, note, len) == [kind |-> kind, text |-> text, note |-> note, len |-> len]
NoError == Err("None", "", NoNote, 0)
ErrText(text) == Err("text", text, NoNote, 0)
ErrNote(note) == Err("note", "", note, 0)
\* an empty output is kept as None
ErrTail_EmptyIsNone(prefix, len) ==
    IF len = 0 THEN NoError
    ELSE Err("tail", prefix, NoNote, IF len > TailLimit THEN TailLimit ELSE len)
ErrTail(prefix, len) == Err("tail", prefix, NoNote, IF len > TailLimit THEN TailLimit ELSE len)

(***************************************************************************)
(* Clone or update.                                                        *)
(***************************************************************************)
\* a destination directory: does it exist, does it hold .git, its content
\* and the URL it was cloned from (the origin a later git pull fetches from)
NoDir == [exists |-> FALSE, git |-> FALSE, files |-> {}, numpyPin |-> FALSE, origin |-> <<>>]
Checkout(repo, origin) ==
    [exists |-> TRUE, git |-> TRUE, files |-> repo.files, numpyPin |-> repo.numpyPin,
     origin |-> origin]

CloneResult(ok, cmds, err, dir) == [ok |-> ok, cmds |-> cmds, err |-> err, dir |-> dir]

\* a failed update falls back to a fresh clone
GitCloneOrUpdate_CloneAfterFailedPull(url, name, shallow, gitOnPath, dir, run, fetched) ==
    LET pull  == Cmd("git pull --ff-only", <<>>, <<>>)
        clone == Cmd(IF shallow THEN "git clone --depth 1" ELSE "git clone", url, name)
    IN  IF ~gitOnPath THEN CloneResult(FALSE, <<>>, ErrText("git not found on PATH"), dir)
        ELSE IF dir.exists /\ dir.git /\ run.code = 0
        THEN CloneResult(TRUE, <<pull>>, NoError, Checkout(fetched, dir.origin))
        ELSE IF dir.exists /\ dir.git
        THEN CloneResult(TRUE, <<pull, clone>>, NoError, Checkout(fetched, url))
        ELSE IF run.code # 0 THEN CloneResult(FALSE, <<clone>>, ErrTail("", run.out), dir)
        ELSE CloneResult(TRUE, <<clone>>, NoError, Checkout(fetched, url))

\* the update fetches from the URL given, not from the checkout's origin
GitCloneOrUpdate_PullFromUrl(url, name, shallow, gitOnPath, dir, run, fetched) ==
    LET pull  == Cmd("git pull --ff-only", <<>>, <<>>)
        clone == Cmd(IF shallow THEN "git clone --depth 1" ELSE "git clone", url, name)
    IN  IF ~gitOnPath THEN CloneResult(FALSE, <<>>, ErrText("git not found on PATH"), dir)
        ELSE IF dir.exists /\ dir.git
        THEN IF run.code # 0 THEN CloneResult(FALSE, <<pull>>, ErrTail("", run.out), dir)
             ELSE CloneResult(TRUE, <<pull>>, NoError, Checkout(fetched, url))
        ELSE IF run.code # 0 THEN CloneResult(FALSE, <<clone>>, ErrTail("", run.out), dir)
        ELSE CloneResult(TRUE, <<clone>>, NoError, Checkout(fetched, url))

\* _git_clone_or_update(url, dest_dir, shallow): dir is dest_dir before the
\* call, run what git returns, fetched what the remote holds.
\* [ok, cmds, err] and dest_dir after the call; every command in cmds was run
GitCloneOrUpdate(url, name, shallow, gitOnPath, dir, run, fetched) ==
    LET pull  == Cmd("git pull --ff-only", <<>>, <<>>)
        clone == Cmd(IF shallow THEN "git clone --depth 1" ELSE "git clone", url, name)
    IN  IF ~gitOnPath THEN CloneResult(FALSE, <<>>, ErrText("git not found on PATH"), dir)
        ELSE IF dir.exists /\ dir.git
        THEN IF run.code # 0 THEN CloneResult(FALSE, <<pull>>, ErrTail("", run.out), dir)
             ELSE CloneResult(TRUE, <<pull>>, NoError, Checkout(fetched, dir.origin))
        ELSE IF run.code # 0 THEN CloneResult(FALSE, <<clone>>, ErrTail("", run.out), dir)
        ELSE CloneResult(TRUE, <<clone>>, NoError, Checkout(fetched, url))

(***************************************************************************)
(* Build dispatch.  A build answers [ok, cmds, err]; ran is every command  *)
(* it executed, in order, and venv whether the repository's virtual        *)
(* environment exists afterwards.  The suggested entry point and the       *)
(* integration notes of a build are fixed texts and file probes that       *)
(* nothing else reads; they are left out.                                  *)
(***************************************************************************)
BuildResult(ok, cmds, err, ran, venv) ==
    [ok |-> ok, cmds |-> cmds, err |-> err, ran |-> ran, venv |-> venv]

\* (out2 or out)
OrOut(out2, out) == IF out2 # 0 THEN out2 ELSE out

\* the fallback is run whatever the preferred command returned
RustBuild_AlwaysFallback(venv, cargoOnPath, r1, r2) ==
    LET component == Cmd("cargo component build --release", <<>>, <<>>)
        plain     == Cmd("cargo build --release", <<>>, <<>>)
    IN  IF ~cargoOnPath
        THEN BuildResult(FALSE, <<>>, ErrText("cargo not found on PATH"), <<>>, venv)
        ELSE IF r2.code # 0
        THEN BuildResult(FALSE, <<component, plain>>, ErrTail("", OrOut(r2.out, r1.out)),
                         <<component, plain>>, venv)
        ELSE BuildResult(TRUE, <<component, plain>>, NoError, <<component, plain>>, venv)

\* _rust_build
RustBuild(venv, cargoOnPath, r1, r2) ==
    LET component == Cmd("cargo component build --release", <<>>, <<>>)
        plain     == Cmd("cargo build --release", <<>>, <<>>)
    IN  IF ~cargoOnPath
        THEN BuildResult(FALSE, <<>>, ErrText("cargo not found on PATH"), <<>>, venv)
        ELSE IF r1.code = 0
        THEN BuildResult(TRUE, <<component>>, NoError, <<component>>, venv)
        ELSE IF r2.code # 0
        THEN BuildResult(FALSE, <<component, plain>>, ErrTail("", OrOut(r2.out, r1.out)),
                         <<component, plain>>, venv)
        ELSE BuildResult(TRUE, <<component, plain>>, NoError, <<component, plain>>, venv)

\* _node_build
NodeBuild(venv, npmOnPath, r) ==
    LET install == Cmd("npm install", <<>>, <<>>)
    IN  IF ~npmOnPath
        THEN BuildResult(FALSE, <<>>, ErrText("npm not found on PATH"), <<>>, venv)
        ELSE IF r.code # 0
        THEN BuildResult(FALSE, <<install>>, ErrTail("", r.out), <<install>>, venv)
        ELSE BuildResult(TRUE, <<install>>, NoError, <<install>>, venv)

\* _docker_build
DockerBuild(venv) == BuildResult(TRUE, <<>>, NoError, <<>>, venv)

\* the interpreter versions _python_version can report
PyVersions == {<<3, 11>>, <<3, 12>>, <<4, 0>>}

\* re.search(r"(?im)^\s*numpy\s*==\s*1\.23\.[0-9]+\s*$", txt) on one line
\* of txt: blanks, numpy in any case, blanks, ==, blanks, 1.23., one or more
\* digits, blanks, the end of the line
NumpyPinLine(line) ==
    LET s1     == LStrip(line, Whitespace)
        s2     == LStrip(Drop(s1, 5), Whitespace)
        s3     == LStrip(Drop(s2, 2), Whitespace)
        s4     == Drop(s3, 5)
        digits == Len(s4) - Len(LStrip(s4, Digit))
    IN  /\ ToLower(Take(s1, 5)) = <<"n","u","m","p","y">>
        /\ Take(s2, 2) = <<"=", "=">>
        /\ Take(s3, 5) = <<"1", ".", "2", "3", ".">>
        /\ digits >= 1
        /\ LStrip(Drop(s4, digits), Whitespace) = <<>>

\* only the minor version is compared
PreflightFails_MinorOnly(repo, ver) ==
    /\ Exists(repo, RequirementsTxt)
    /\ ver[2] >= 12
    /\ repo.numpyPin

\* _preflight_requirements_compat: is there a message?
PreflightFails(repo, ver) ==
    /\ Exists(repo, RequirementsTxt)
    /\ (ver[1] > 3 \/ (ver[1] = 3 /\ ver[2] >= 12))
    /\ repo.numpyPin

\* what _python_build observes of a repository: is a Python on PATH (the
\* script runs under one: sys.executable), what creating the venv (when
\* there is none yet), upgrading pip, the install and the fallback install
\* return, the venv's interpreter version, and whether poetry and pipenv are
\* on PATH.  What the build does not consult stands at a fixed value.
PyEnvs(repo, venv) ==
    LET req     == Exists(repo, RequirementsTxt)
        lock    == ~req /\ Exists(repo, PoetryLock)
        pipfile == ~req /\ Exists(repo, Pipfile)
        pkg     == ~req /\ (Exists(repo, PyprojectToml) \/ Exists(repo, SetupPy))
    IN  [python : {TRUE},
         mkvenv : IF venv THEN {RunOk} ELSE RunResults,
         ver    : IF req THEN PyVersions ELSE {<<3, 11>>},
         pip    : RunResults,
         inst   : IF req \/ lock \/ pipfile \/ pkg THEN RunResults ELSE {RunOk},
         inst2  : IF pkg THEN RunResults ELSE {RunOk},
         poetry : IF lock THEN BOOLEAN ELSE {FALSE},
         pipenv : IF pipfile THEN BOOLEAN ELSE {FALSE}]

\* a failed editable install fails the build whatever the fallback returns
PythonBuild_FallbackIgnored(name, repo, venv, e) ==
    LET mkvenv   == Cmd("python -m venv", <<>>, name)
        probe    == Cmd("<venv python> -c print version", <<>>, name)
        pipUp    == Cmd("<venv python> -m pip install -U pip setuptools wheel", <<>>, name)
        pipReq   == Cmd("<venv python> -m pip install -r requirements.txt", <<>>, name)
        poetry   == Cmd("poetry install", <<>>, <<>>)
        pipenv   == Cmd("pipenv install", <<>>, <<>>)
        editable == Cmd("<venv python> -m pip install -e .", <<>>, name)
        plain    == Cmd("<venv python> -m pip install .", <<>>, name)
        ran0     == IF venv THEN <<>> ELSE <<mkvenv>>
        ran1     == ran0 \o <<probe, pipUp>>
        one(c)   == BuildResult(e.inst.code = 0, <<pipUp, c>>,
                                IF e.inst.code = 0 THEN NoError ELSE ErrTail("", e.inst.out),
                                ran1 \o <<c>>, TRUE)
    IN  IF ~e.python
        THEN BuildResult(FALSE, <<>>, ErrText("Python not found on PATH"), <<>>, venv)
        ELSE IF ~venv /\ e.mkvenv.code # 0
        THEN BuildResult(FALSE, <<>>, ErrTail("venv creation failed: ", e.mkvenv.out), ran0, FALSE)
        ELSE IF e.pip.code # 0
        THEN BuildResult(FALSE, <<pipUp>>, ErrTail("", e.pip.out), ran1, TRUE)
        ELSE IF Exists(repo, RequirementsTxt)
        THEN IF PreflightFails(repo, e.ver)
             THEN BuildResult(FALSE, <<pipUp>>, ErrText("requirements.txt pins numpy==1.23.*"),
                              ran1, TRUE)
             ELSE one(pipReq)
        ELSE IF Exists(repo, PoetryLock) /\ e.poetry THEN one(poetry)
        ELSE IF Exists(repo, Pipfile) /\ e.pipenv THEN one(pipenv)
        ELSE IF Exists(repo, PyprojectToml) \/ Exists(repo, SetupPy)
        THEN IF e.inst.code = 0
             THEN BuildResult(TRUE, <<pipUp, editable>>, NoError, ran1 \o <<editable>>, TRUE)
             ELSE IF e.inst2.code # 0
             THEN BuildResult(FALSE, <<pipUp, editable, plain>>,
                              ErrTail("", OrOut(e.inst2.out, e.inst.out)),
                              ran1 \o <<editable, plain>>, TRUE)
             ELSE BuildResult(FALSE, <<pipUp, editable, plain>>,
                              ErrTail("", e.inst.out),
                              ran1 \o <<editable, plain>>, TRUE)
        ELSE BuildResult(TRUE, <<pipUp>>, NoError, ran1, TRUE)

\* poetry.lock is looked for before requirements.txt
PythonBuild_PoetryFirst(name, repo, venv, e) ==
    LET mkvenv   == Cmd("python -m venv", <<>>, name)
        probe    == Cmd("<venv python> -c print version", <<>>, name)
        pipUp    == Cmd("<venv python> -m pip install -U pip setuptools wheel", <<>>, name)
        pipReq   == Cmd("<venv python> -m pip install -r requirements.txt", <<>>, name)
        poetry   == Cmd("poetry install", <<>>, <<>>)
        pipenv   == Cmd("pipenv install", <<>>, <<>>)
        editable == Cmd("<venv python> -m pip install -e .", <<>>, name)
        plain    == Cmd("<venv python> -m pip install .", <<>>, name)
        ran0     == IF venv THEN <<>> ELSE <<mkvenv>>
        ran1     == ran0 \o <<probe, pipUp>>
        one(c)   == BuildResult(e.inst.code = 0, <<pipUp, c>>,
                                IF e.inst.code = 0 THEN NoError ELSE ErrTail("", e.inst.out),
                                ran1 \o <<c>>, TRUE)
    IN  IF ~e.python
        THEN BuildResult(FALSE, <<>>, ErrText("Python not found on PATH"), <<>>, venv)
        ELSE IF ~venv /\ e.mkvenv.code # 0
        THEN BuildResult(FALSE, <<>>, ErrTail("venv creation failed: ", e.mkvenv.out), ran0, FALSE)
        ELSE IF e.pip.code # 0
        THEN BuildResult(FALSE, <<pipUp>>, ErrTail("", e.pip.out), ran1, TRUE)
        ELSE IF Exists(repo, PoetryLock) /\ e.poetry THEN one(poetry)
        ELSE IF Exists(repo, RequirementsTxt)
        THEN IF PreflightFails(repo, e.ver)
             THEN BuildResult(FALSE, <<pipUp>>, ErrText("requirements.txt pins numpy==1.23.*"),
                              ran1, TRUE)
             ELSE one(pipReq)
        ELSE IF Exists(repo, Pipfile) /\ e.pipenv THEN one(pipenv)
        ELSE IF Exists(repo, PyprojectToml) \/ Exists(repo, SetupPy)
        THEN IF e.inst.code = 0
             THEN BuildResult(TRUE, <<pipUp, editable>>, NoError, ran1 \o <<editable>>, TRUE)
             ELSE IF e.inst2.code # 0
             THEN BuildResult(FALSE, <<pipUp, editable, plain>>,
                              ErrTail("", OrOut(e.inst2.out, e.inst.out)),
                              ran1 \o <<editable, plain>>, TRUE)
             ELSE BuildResult(TRUE, <<pipUp, editable, plain>>, NoError,
                              ran1 \o <<editable, plain>>, TRUE)
        ELSE BuildResult(TRUE, <<pipUp>>, NoError, ran1, TRUE)

\* _python_build, with _ensure_venv and _python_version
PythonBuild(name, repo, venv, e) ==
    LET mkvenv   == Cmd("python -m venv", <<>>, name)
        probe    == Cmd("<venv python> -c print version", <<>>, name)
        pipUp    == Cmd("<venv python> -m pip install -U pip setuptools wheel", <<>>, name)
        pipReq   == Cmd("<venv python> -m pip install -r requirements.txt", <<>>, name)
        poetry   == Cmd("poetry install", <<>>, <<>>)
        pipenv   == Cmd("pipenv install", <<>>, <<>>)
        editable == Cmd("<venv python> -m pip install -e .", <<>>, name)
        plain    == Cmd("<venv python> -m pip install .", <<>>, name)
        ran0     == IF venv THEN <<>> ELSE <<mkvenv>>
        ran1     == ran0 \o <<probe, pipUp>>
        one(c)   == BuildResult(e.inst.code = 0, <<pipUp, c>>,
                                IF e.inst.code = 0 THEN NoError ELSE ErrTail("", e.inst.out),
                                ran1 \o <<c>>, TRUE)
    IN  IF ~e.python
        THEN BuildResult(FALSE, <<>>, ErrText("Python not found on PATH"), <<>>, venv)
        ELSE IF ~venv /\ e.mkvenv.code # 0
        THEN BuildResult(FALSE, <<>>, ErrTail("venv creation failed: ", e.mkvenv.out), ran0, FALSE)
        ELSE IF e.pip.code # 0
        THEN BuildResult(FALSE, <<pipUp>>, ErrTail("", e.pip.out), ran1, TRUE)
        ELSE IF Exists(repo, RequirementsTxt)
        THEN IF PreflightFails(repo, e.ver)
             THEN BuildResult(FALSE, <<pipUp>>, ErrText("requirements.txt pins numpy==1.23.*"),
                              ran1, TRUE)
             ELSE one(pipReq)
        ELSE IF Exists(repo, PoetryLock) /\ e.poetry THEN one(poetry)
        ELSE IF Exists(repo, Pipfile) /\ e.pipenv THEN one(pipenv)
        ELSE IF Exists(repo, PyprojectToml) \/ Exists(repo, SetupPy)
        THEN IF e.inst.code = 0
             THEN BuildResult(TRUE, <<pipUp, editable>>, NoError, ran1 \o <<editable>>, TRUE)
             ELSE IF e.inst2.code # 0
             THEN BuildResult(FALSE, <<pipUp, editable, plain>>,
                              ErrTail("", OrOut(e.inst2.out, e.inst.out)),
                              ran1 \o <<editable, plain>>, TRUE)
             ELSE BuildResult(TRUE, <<pipUp, editable, plain>>, NoError,
                              ran1 \o <<editable, plain>>, TRUE)
        ELSE BuildResult(TRUE, <<pipUp>>, NoError, ran1, TRUE)

\* _build_repo, over what the build can observe: every answer it can give
BuildRepo(name, repo, detected, venv) ==
    IF detected = "Rust"
    THEN {RustBuild(venv, cargo, r1, r2) :
            cargo \in BOOLEAN, r1 \in RunResults, r2 \in RunResults}
    ELSE IF detected = "Python"
    THEN {PythonBuild(name, repo, venv, e) : e \in PyEnvs(repo, venv)}
    ELSE IF detected = "Node.js"
    THEN {NodeBuild(venv, npm, r) : npm \in BOOLEAN, r \in RunResults}
    ELSE IF detected = "Docker" THEN {DockerBuild(venv)}
    ELSE {BuildResult(TRUE, <<>>, NoError, <<>>, venv)}

(***************************************************************************)
(* State.                                                                  *)
(***************************************************************************)
VARIABLES
    pc,         \* where main is: "start", "loop", "gate", "clone", "build",
                \* "done" (returned), "raised" (left by an exception)
    args,       \* the parsed command line, with the lines of the --config file
    gitOnPath,  \* is git on PATH
    urls,       \* the resolved URL list
    idx,        \* position in urls of the URL being processed
    results,    \* the outcome records appended so far
    dirs,       \* name -> the destination directory orch_repos/<name>
    venvs,      \* names whose virtual environment orch_repos/.venvs/<name> exists
    gate,       \* what _github_ci_gate answered for this URL, with its API calls
    cloneCmds,  \* clone_cmds of this URL
    ran,        \* the external commands executed for this URL, in order
    exit,       \* <<>> while running, <<code>> once main returned
    report,     \* orch_repos_docs.md
    printed,    \* was the no-input message printed
    fnArg,      \* SpecName, SpecDetect: the argument the function is applied to
    fnRes       \* SpecName, SpecDetect: the values returned so far, in order

mainVars == <<pc, args, gitOnPath, urls, idx, results, dirs, venvs, gate,
              cloneCmds, ran, exit, report, printed>>
fnVars == <<fnArg, fnRes>>
vars == <<mainVars, fnVars>>

(***************************************************************************)
(* The inputs of a run.                                                    *)
(***************************************************************************)
U1 == <<"h","t","t","p","s",":","/","/","g","i","t","h","u","b",".","c","o","m","/","a","c","m","e","/","w","i","d","g","e","t",".","g","i","t">>
U2 == <<"h","t","t","p","s",":","/","/","g","i","t","l","a","b",".","c","o","m","/","x","/","w","i","d","g","e","t","/">>
U3 == <<"h","t","t","p",":","/","/","g","i","t","h","u","b",".","c","o","m","/","a","c","m","e","/","t","o","o","l">>
Blank == <<" ", " ">>
CommentLine == <<"#", " ", "x">>
\* a config line with blanks around the URL
PaddedLine == <<" ">> \o U3 \o <<" ">>
SkipAcme == <<"a","c","m","e">>

Positionals == {U1, U2, Blank}
ConfigLines == {CommentLine, PaddedLine}
SkipLists == {<<>>, <<SkipAcme>>}
GateModes == {"auto", "require", "off"}

SeqsUpTo(S, n) == UNION {[1..k -> S] : k \in 0..n}

\* argparse's namespace; hasConfig: --config was given (its lines: config)
ArgSets ==
    UNION {[hasConfig : IF j = 0 THEN BOOLEAN ELSE {TRUE},
            config : [1..j -> ConfigLines], urls : [1..k -> Positionals],
            noBuild : BOOLEAN, shallow : BOOLEAN, ciGate : GateModes,
            skip : SkipLists] : <<j, k>> \in {jk \in (0..MaxUrls) \X (0..MaxUrls) :
                                               jk[1] + jk[2] <= MaxUrls}}

\* what a remote can hold
RustAndPython == [files |-> {CargoToml, RequirementsTxt}, numpyPin |-> FALSE]
PinnedPython == [files |-> {RequirementsTxt, ReadmeMd}, numpyPin |-> TRUE]
NodeRepo == [files |-> {PackageJson}, numpyPin |-> FALSE]
PlainRepo == [files |-> {ReadmeMd}, numpyPin |-> FALSE]
Remotes == {RustAndPython, PinnedPython, NodeRepo, PlainRepo}

\* the entries a resolved URL list can hold, with what the run derives
\* from each: its name and its GitHub owner and repository
Entries == Positionals \cup {Strip(l) : l \in ConfigLines}
NameOf == [u \in Entries |-> ParseRepoName(u)]
OwnerRepoOf == [u \in Entries |-> ParseGithubOwnerRepo(u)]
Names == {NameOf[u] : u \in Entries}

NoGate == [passed |-> FALSE, note |-> NoNote, exists |-> FALSE, calls |-> <<>>]
NoReport == [written |-> FALSE, sections |-> <<>>]

(***************************************************************************)
(* main                                                                    *)
(***************************************************************************)
FnIdle == fnArg = <<>> /\ fnRes = <<>>

Init ==
    /\ pc = "start"
    /\ args \in ArgSets
    /\ gitOnPath \in BOOLEAN
    /\ urls = <<>>
    /\ idx = 1
    /\ results = <<>>
    \* what an earlier run left: nothing, or a checkout
    /\ dirs \in {[n \in Names |-> NoDir]} \cup
                {[n \in Names |-> IF n = NameOf[U1] THEN Checkout(PlainRepo, U1) ELSE NoDir]}
    /\ venvs = {}
    /\ gate = NoGate
    /\ cloneCmds = <<>>
    /\ ran = <<>>
    /\ exit = <<>>
    /\ report = NoReport
    /\ printed = FALSE
    /\ FnIdle

\* _load_urls_from_config
LoadUrlsFromConfig(lines) ==
    SelectSeq([i \in 1..Len(lines) |-> Strip(lines[i])],
              LAMBDA l : l # <<>> /\ ~StartsWith(l, <<"#">>))

\* blank entries are kept
ResolveUrls_KeepBlank(a) ==
    (IF a.hasConfig THEN LoadUrlsFromConfig(a.config) ELSE <<>>) \o a.urls

\* main, lines 585-589
ResolveUrls(a) ==
    SelectSeq((IF a.hasConfig THEN LoadUrlsFromConfig(a.config) ELSE <<>>) \o a.urls,
              LAMBDA u : Strip(u) # <<>>)

\* RepoResult
RepoResult(name, url, detected, cmds, status, error) ==
    [name |-> name, url |-> url, dest_dir |-> <<OrchReposDir, name>>,
     detected |-> detected, build_commands |-> cmds, status |-> status,
     error |-> error]

\* _format_docs: one section per record, numbered from 1
FormatDocs(rs) ==
    [i \in 1..Len(rs) |->
        [heading |-> <<i, rs[i].name>>, url |-> rs[i].url, path |-> rs[i].dest_dir,
         detected |-> rs[i].detected, cmds |-> rs[i].build_commands,
         status |-> rs[i].status, error |-> rs[i].error]]

\* a skipped repository counts as a failure
ExitCode_SkippedFails(rs) ==
    IF \E i \in 1..Len(rs) : rs[i].status # "Success" THEN 1 ELSE 0

\* main, lines 729-731
ExitCode(rs) ==
    IF \E i \in 1..Len(rs) : rs[i].status = "Failure" THEN 1 ELSE 0

\* _find_project_root raises: no Phoenix root above the script or the
\* working directory
RootNotFound ==
    /\ pc = "start"
    /\ pc' = "raised"
    /\ UNCHANGED <<args, gitOnPath, urls, idx, results, dirs, venvs, gate,
                   cloneCmds, ran, exit, report, printed, fnVars>>

\* main, lines 579-599: the root is found, the URL list resolved
ResolveInput ==
    /\ pc = "start"
    /\ urls' = ResolveUrls(args)
    /\ IF urls' = <<>>
       THEN pc' = "done" /\ printed' = TRUE /\ exit' = <<2>>
       ELSE pc' = "loop" /\ UNCHANGED <<printed, exit>>
    /\ UNCHANGED <<args, gitOnPath, idx, results, dirs, venvs, gate, cloneCmds,
                   ran, report, fnVars>>

\* the filter is compared with the whole URL
Skipped_WholeUrl(url, skip) == \E i \in 1..Len(skip) : url = skip[i]

\* any(s in url for s in args.skip)
Skipped(url, skip) == \E i \in 1..Len(skip) : Contains(url, skip[i])

\* the loop head, lines 601-621: a URL the --skip filter matches gets its
\* record at once; any other goes on to the CI gate
NextUrl ==
    /\ pc = "loop"
    /\ idx <= Len(urls)
    /\ LET url  == urls[idx]
           name == NameOf[url]
       IN  IF Skipped(url, args.skip)
           THEN /\ results' = Append(results,
                        RepoResult(name, url, "Skipped", <<>>, "Skipped", NoError))
                /\ idx' = idx + 1
                /\ pc' = "loop"
           ELSE /\ pc' = "gate"
                /\ UNCHANGED <<results, idx>>
    /\ gate' = NoGate
    /\ cloneCmds' = <<>>
    /\ ran' = <<>>
    /\ UNCHANGED <<args, gitOnPath, urls, dirs, venvs, exit, report, printed, fnVars>>

\* the gate's answer is noted, and the URL cloned whatever it is
CiGate_NeverRejects ==
    /\ pc = "gate"
    /\ IF args.ciGate = "off" \/ OwnerRepoOf[urls[idx]] = <<>>
       THEN UNCHANGED gate
       ELSE \E r1 \in WorkflowResponses, r2 \in RunsResponses : gate' = GithubCiGate(r1, r2)
    /\ pc' = "clone"
    /\ UNCHANGED <<args, gitOnPath, urls, idx, results, dirs, venvs, cloneCmds, ran, exit,
                   report, printed, fnVars>>

\* the CI gate, lines 623-670
CiGate ==
    /\ pc = "gate"
    /\ LET url  == urls[idx]
           name == NameOf[url]
       IN  IF args.ciGate = "off" \/ OwnerRepoOf[url] = <<>>
           THEN pc' = "clone" /\ UNCHANGED <<gate, results, idx>>
           ELSE \E r1 \in WorkflowResponses, r2 \in RunsResponses :
                   /\ gate' = GithubCiGate(r1, r2)
                   /\ IF GateRejects(args.ciGate, gate')
                      THEN /\ results' = Append(results,
                                   RepoResult(name, url, "CI Gate", <<>>, "Failure",
                                              ErrNote(gate'.note)))
                           /\ idx' = idx + 1
                           /\ pc' = "loop"
                      ELSE pc' = "clone" /\ UNCHANGED <<results, idx>>
    /\ UNCHANGED <<args, gitOnPath, urls, dirs, venvs, cloneCmds, ran, exit,
                   report, printed, fnVars>>

\* a failed clone ends the loop
CloneOrUpdate_StopOnFailure ==
    /\ pc = "clone"
    /\ LET url  == urls[idx]
           name == NameOf[url]
       IN  \E run \in RunResults, fetched \in Remotes :
              LET c == GitCloneOrUpdate(url, name, args.shallow, gitOnPath,
                                        dirs[name], run, fetched)
              IN  /\ cloneCmds' = c.cmds
                  /\ ran' = ran \o c.cmds
                  /\ dirs' = [dirs EXCEPT ![name] = c.dir]
                  /\ IF ~c.ok
                     THEN /\ results' = Append(results,
                                  RepoResult(name, url, "Unknown", c.cmds, "Failure", c.err))
                          /\ idx' = Len(urls) + 1
                          /\ pc' = "loop"
                     ELSE pc' = "build" /\ UNCHANGED <<results, idx>>
    /\ UNCHANGED <<args, gitOnPath, urls, venvs, gate, exit, report, printed, fnVars>>

\* clone or update, lines 672-687
CloneOrUpdate ==
    /\ pc = "clone"
    /\ LET url  == urls[idx]
           name == NameOf[url]
       IN  \E run \in RunResults, fetched \in Remotes :
              LET c == GitCloneOrUpdate(url, name, args.shallow, gitOnPath,
                                        dirs[name], run, fetched)
              IN  /\ cloneCmds' = c.cmds
                  /\ ran' = ran \o c.cmds
                  /\ dirs' = [dirs EXCEPT ![name] = c.dir]
                  /\ IF ~c.ok
                     THEN /\ results' = Append(results,
                                  RepoResult(name, url, "Unknown", c.cmds, "Failure", c.err))
                          /\ idx' = idx + 1
                          /\ pc' = "loop"
                     ELSE pc' = "build" /\ UNCHANGED <<results, idx>>
    /\ UNCHANGED <<args, gitOnPath, urls, venvs, gate, exit, report, printed, fnVars>>

\* --no-build is not looked at
DetectAndBuild_BuildAnyway ==
    /\ pc = "build"
    /\ LET url      == urls[idx]
           name     == NameOf[url]
           repo     == dirs[name]
           detected == DetectRepoType(name, repo)
       IN  \E b \in BuildRepo(name, repo, detected, name \in venvs) :
               /\ results' = Append(results,
                       RepoResult(name, url, detected, cloneCmds \o b.cmds,
                                  IF b.ok THEN "Success" ELSE "Failure",
                                  IF b.ok THEN NoError ELSE b.err))
               /\ ran' = ran \o b.ran
               /\ venvs' = IF b.venv THEN venvs \cup {name} ELSE venvs
    /\ idx' = idx + 1
    /\ pc' = "loop"
    /\ UNCHANGED <<args, gitOnPath, urls, dirs, gate, cloneCmds, exit, report,
                   printed, fnVars>>

\* detection and build, lines 689-721
DetectAndBuild ==
    /\ pc = "build"
    /\ LET url      == urls[idx]
           name     == NameOf[url]
           repo     == dirs[name]
           detected == DetectRepoType(name, repo)
       IN  IF args.noBuild
           THEN /\ results' = Append(results,
                        RepoResult(name, url, detected, cloneCmds, "Skipped", NoError))
                /\ UNCHANGED <<ran, venvs>>
           ELSE \E b \in BuildRepo(name, repo, detected, name \in venvs) :
                       /\ results' = Append(results,
                               RepoResult(name, url, detected, cloneCmds \o b.cmds,
                                          IF b.ok THEN "Success" ELSE "Failure",
                                          IF b.ok THEN NoError ELSE b.err))
                       /\ ran' = ran \o b.ran
                       /\ venvs' = IF b.venv THEN venvs \cup {name} ELSE venvs
    /\ idx' = idx + 1
    /\ pc' = "loop"
    /\ UNCHANGED <<args, gitOnPath, urls, dirs, gate, cloneCmds, exit, report,
                   printed, fnVars>>

\* after the loop, lines 723-731: the report is written, main returns
WriteReport ==
    /\ pc = "loop"
    /\ idx > Len(urls)
    /\ report' = [written |-> TRUE, sections |-> FormatDocs(results)]
    /\ exit' = <<ExitCode(results)>>
    /\ pc' = "done"
    /\ UNCHANGED <<args, gitOnPath, urls, idx, results, dirs, venvs, gate,
                   cloneCmds, ran, printed, fnVars>>

Next ==
    \/ RootNotFound
    \/ ResolveInput
    \/ NextUrl
    \/ CiGate
    \/ CloneOrUpdate
    \/ DetectAndBuild
    \/ WriteReport

Spec == Init /\ [][Next]_vars

(***************************************************************************)
(* SpecName: _parse_repo_name on bounded strings.                          *)
(***************************************************************************)
MainIdle ==
    /\ pc = "idle"
    /\ args = <<>>
    /\ gitOnPath = FALSE
    /\ urls = <<>>
    /\ idx = 1
    /\ results = <<>>
    /\ dirs = <<>>
    /\ venvs = {}
    /\ gate = NoGate
    /\ cloneCmds = <<>>
    /\ ran = <<>>
    /\ exit = <<>>
    /\ report = NoReport
    /\ printed = FALSE

\* pieces a URL string is put together from
NameTokens == {<<"a">>, <<"Z">>, <<"7">>, <<".">>, <<"-">>, GitSuffix, <<"/">>, <<" ">>, <<"@">>, <<"_">>}

RECURSIVE Concat(_)
Concat(ts) == IF ts = <<>> THEN <<>> ELSE Head(ts) \o Concat(Tail(ts))

TokenStrings == {Concat(ts) : ts \in SeqsUpTo(NameTokens, MaxTokens)}

NameInit ==
    /\ MainIdle
    /\ fnArg \in TokenStrings
    /\ fnRes = <<>>

\* name = _parse_repo_name(url)
DeriveName ==
    /\ Len(fnRes) = 0
    /\ fnRes' = <<ParseRepoName(fnArg)>>
    /\ UNCHANGED <<fnArg, mainVars>>

\* _parse_repo_name(name)
DeriveAgain ==
    /\ Len(fnRes) = 1
    /\ fnRes' = Append(fnRes, ParseRepoName(fnRes[1]))
    /\ UNCHANGED <<fnArg, mainVars>>

NameNext == DeriveName \/ DeriveAgain

SpecName == NameInit /\ [][NameNext]_vars

(***************************************************************************)
(* SpecDetect: _detect_repo_type on every content of a directory.          *)
(***************************************************************************)
DeepPy == File(<<<<"a">>, <<"b">>, <<"c">>, <<"d">>>>, "deep", ".py")
NestedPy == File(<<<<"a">>, <<"b">>, <<"c">>>>, "nested", ".py")
VendoredPy == File(<<<<"n","o","d","e","_","m","o","d","u","l","e","s">>>>, "gyp", ".py")
NestedRequirements == File(<<<<"s","r","c">>>>, "requirements", ".txt")
ScannedFiles == {CargoToml, PyprojectToml, RequirementsTxt, SetupPy, PackageJson,
                 Dockerfile, ReadmeMd, DeepPy, NestedPy, VendoredPy, NestedRequirements}
\* a repository called like a directory the scan skips
TargetName == <<"t","a","r","g","e","t">>
WidgetName == <<"w","i","d","g","e","t">>

DetectInit ==
    /\ MainIdle
    /\ fnArg \in [name : {WidgetName, TargetName},
                  repo : [files : SUBSET ScannedFiles, numpyPin : {FALSE}]]
    /\ fnRes = <<>>

\* detected = _detect_repo_type(dest)
Detect ==
    /\ Len(fnRes) = 0
    /\ fnRes' = <<DetectRepoType(fnArg.name, fnArg.repo)>>
    /\ UNCHANGED <<fnArg, mainVars>>

SpecDetect == DetectInit /\ [][Detect]_vars

(***************************************************************************)
(* SpecGithub: _parse_github_owner_repo on URLs put together from a        *)
(* scheme, a host, path segments and what can follow them.                 *)
(***************************************************************************)
Acme == <<"a","c","m","e">>
Colon == <<":">>
SlashSlash == <<"/", "/">>
UrlSchemes == {Https, Http, <<"H","T","T","P","S">>, <<"f","t","p">>, <<>>}
UrlHosts == {GithubHost, <<"G","i","t","H","u","b",".","c","o","m">>,
             <<"g","i","t","l","a","b",".","c","o","m">>,
             <<"w","w","w",".">> \o GithubHost}
UrlSegments == {Acme, WidgetName}
UrlSeparators == {<<"/">>, SlashSlash}
UrlTrails == {<<>>, <<"/">>, GitSuffix, GitSuffix \o <<"/">>, <<"?", "x">>, <<"#", "x">>}

\* the URL string of its pieces; a URL without a scheme has no "://" either
UrlOf(a) ==
    LET pad  == IF a.pad THEN <<" ">> ELSE <<>>
        head == IF a.scheme = <<>> THEN <<>> ELSE a.scheme \o Colon \o SlashSlash
        path == Concat([i \in 1..Len(a.segs) |-> a.sep \o a.segs[i]])
    IN  pad \o head \o a.host \o path \o a.trail \o pad

GithubInit ==
    /\ MainIdle
    /\ fnArg \in [scheme : UrlSchemes, host : UrlHosts,
                  segs : SeqsUpTo(UrlSegments, MaxSegs), sep : UrlSeparators,
                  trail : UrlTrails, pad : BOOLEAN]
    /\ fnRes = <<>>

\* owner_repo = _parse_github_owner_repo(url)
ParseOwnerRepo ==
    /\ Len(fnRes) = 0
    /\ fnRes' = <<ParseGithubOwnerRepo(UrlOf(fnArg))>>
    /\ UNCHANGED <<fnArg, mainVars>>

SpecGithub == GithubInit /\ [][ParseOwnerRepo]_vars

(***************************************************************************)
(* SpecRust: _rust_build over what cargo can return.                       *)
(***************************************************************************)
\* what a cargo command returns: 101 is the exit code of a panic; a
\* successful build prints too
CargoRuns == [code : {0, 1, 101}, out : {0, 1, 4001}]

RustInit ==
    /\ MainIdle
    /\ fnArg \in [venv : BOOLEAN, cargo : BOOLEAN, r1 : CargoRuns, r2 : CargoRuns]
    /\ fnRes = <<>>

\* _rust_build(repo_dir)
BuildRust ==
    /\ Len(fnRes) = 0
    /\ fnRes' = <<RustBuild(fnArg.venv, fnArg.cargo, fnArg.r1, fnArg.r2)>>
    /\ UNCHANGED <<fnArg, mainVars>>

SpecRust == RustInit /\ [][BuildRust]_vars

(***************************************************************************)
(* SpecPython: _python_build on every checkout that is detected as Python, *)
(* over everything the build can observe.                                  *)
(***************************************************************************)
MainPy == RootFile("main", ".py")
PythonFiles == {RequirementsTxt, PoetryLock, Pipfile, PyprojectToml, SetupPy, MainPy}
\* a line of requirements.txt about numpy: its pieces, and the line
RequirementNames == {<<"n","u","m","p","y">>, <<"N","u","m","P","y">>}
PinOperators == {<<"=", "=">>, <<" ", "=", "=", " ">>}
RequirementOperators == PinOperators \cup {<<">", "=">>}
PinVersions == {<<"1",".","2","3",".","1","0">>}
RequirementVersions == PinVersions \cup {<<"1",".","2","4",".","0">>}
Requirements == [name : RequirementNames, op : RequirementOperators,
                 version : RequirementVersions]
RequirementLine(q) == <<" ">> \o q.name \o q.op \o q.version \o <<" ">>
\* a checkout without requirements.txt has no requirement
NoRequirement == [name : {<<>>}, op : {<<>>}, version : {<<>>}]

\* the checkouts that are detected as Python, each with the line of its
\* requirements.txt
PythonRepos ==
    {c \in [files : SUBSET PythonFiles, requirement : Requirements \cup NoRequirement] :
        /\ c.requirement \in Requirements <=> RequirementsTxt \in c.files
        /\ DetectRepoType(WidgetName, [files |-> c.files, numpyPin |-> FALSE]) = "Python"}
\* what the build reads of a checkout
RepoOf(c) ==
    [files |-> c.files,
     numpyPin |-> RequirementsTxt \in c.files /\ NumpyPinLine(RequirementLine(c.requirement))]
\* what the build can observe, consulted or not
PythonEnvs == [python : {TRUE}, mkvenv : RunResults, ver : PyVersions,
               pip : RunResults, inst : RunResults, inst2 : RunResults,
               poetry : BOOLEAN, pipenv : BOOLEAN]

PythonInit ==
    /\ MainIdle
    /\ fnArg \in [name : {WidgetName}, repo : PythonRepos, venv : BOOLEAN, e : PythonEnvs]
    /\ fnRes = <<>>

\* _python_build(repo_dir, venvs_dir)
BuildPython ==
    /\ Len(fnRes) = 0
    /\ fnRes' = <<PythonBuild(fnArg.name, RepoOf(fnArg.repo), fnArg.venv, fnArg.e)>>
    /\ UNCHANGED <<fnArg, mainVars>>

SpecPython == PythonInit /\ [][BuildPython]_vars

(***************************************************************************)
(* Properties.                                                             *)
(***************************************************************************)
Last(q) == q[Len(q)]
HasStatus(st) == \E i \in 1..Len(results) : results[i].status = st
Done == pc = "done"

\* C1: a run of main that processed at least one URL returns 1 when some
\* outcome record has status Failure and 0 when none has; a record with
\* status Skipped does not count as a failure.
C1_ExitCodeReflectsFailures ==
    (Done /\ urls # <<>>) =>
        /\ HasStatus("Failure") => exit = <<1>>
        /\ ~HasStatus("Failure") => exit = <<0>>

\* a finished run that returned 0 although one URL was skipped
C1_Witness ==
    /\ Done
    /\ exit = <<0>>
    /\ HasStatus("Skipped")
    /\ HasStatus("Success")

\* C2: no failure of one repository aborts the run.  The records are those
\* of the URLs processed so far, one each, in input order; whatever failed
\* for a URL, main goes on (it is never stuck, and it raises nothing once
\* the loop has begun), and when it returns there is a record for every URL.
C2_OneRecordPerUrl ==
    /\ Len(results) <= Len(urls)
    /\ \A i \in 1..Len(results) : results[i].url = urls[i]
    /\ pc \in {"loop", "gate", "clone", "build"} =>
          /\ Len(results) = idx - 1
          /\ ENABLED Next
    /\ pc = "raised" => results = <<>> /\ urls = <<>>
    /\ (Done /\ urls # <<>>) => Len(results) = Len(urls)

\* a finished run whose first URL failed and whose second was built
C2_Witness ==
    /\ Done
    /\ Len(results) = 2
    /\ results[1].status = "Failure"
    /\ results[2].status = "Success"

\* is this entry of the command line or of the config file no URL?
NoUrl(entry) == Strip(entry) = <<>> \/ StartsWith(Strip(entry), <<"#">>)
NoInput ==
    /\ \A i \in 1..Len(args.urls) : Strip(args.urls[i]) = <<>>
    /\ \A i \in 1..Len(args.config) : NoUrl(args.config[i])

\* C3: when no URL is given (no positional URL and no config file, or only
\* blank entries), main prints the no-input message and returns 2, having
\* run no gate request and no command, appended no record and written no
\* report.
C3_NoInputReturnsTwo ==
    (NoInput /\ pc \notin {"start", "raised"}) =>
        /\ Done
        /\ exit = <<2>>
        /\ printed
        /\ ~report.written
        /\ results = <<>>
        /\ gate.calls = <<>>
        /\ ran = <<>>

\* main returned 2 on a command line of blank entries only
C3_Witness ==
    /\ Done
    /\ exit = <<2>>
    /\ args.urls # <<>>
    /\ ~report.written

\* does the URL contain one of the --skip substrings?
SkipMatch(url) == \E i \in 1..Len(args.skip) : Contains(url, args.skip[i])

\* C4: a URL that contains a --skip substring gets a record with status
\* Skipped, tag Skipped and no commands, and nothing is attempted for it:
\* main never stands at its gate, clone or build, and no API call and no
\* command is logged for it.
C4_SkipFilter ==
    /\ \A i \in 1..Len(results) :
          SkipMatch(results[i].url) =>
              /\ results[i].status = "Skipped"
              /\ results[i].detected = "Skipped"
              /\ results[i].build_commands = <<>>
    /\ pc \in {"gate", "clone", "build"} => ~SkipMatch(urls[idx])
    /\ (pc = "loop" /\ results # <<>> /\ SkipMatch(Last(results).url)) =>
          gate.calls = <<>> /\ ran = <<>>

\* a skipped GitHub URL, recorded after another URL was cloned
C4_Witness ==
    /\ Len(results) = 2
    /\ SkipMatch(results[2].url)
    /\ results[2].status = "Skipped"
    /\ results[1].build_commands # <<>>

\* the gate was asked for the URL being processed, and what followed
GateAsked == gate.calls # <<>>
GateRejected == pc = "loop" /\ results # <<>> /\ Last(results).detected = "CI Gate"
GateAdmitted == pc = "clone"
\* what the API said: the workflow lookup found the workflow; a call could
\* not reach the API
WorkflowFound == GateAsked /\ gate.calls[1].resp.status = 200
ApiUnreachable == \E i \in 1..Len(gate.calls) : gate.calls[i].resp.status = 0

\* C5: the enforcement decision depends on the mode and the gate outcome
\* only.  Mode off: always admitted, no API call.  Mode auto: rejected only
\* when the workflow exists and is failing, admitted otherwise, also when
\* the API could not be reached.  Mode require: admitted only when the
\* workflow exists and its latest run passed.
C5_GatePolicy ==
    /\ args.ciGate = "off" => ~GateAsked /\ ~GateRejected
    /\ args.ciGate = "auto" =>
          /\ GateRejected => WorkflowFound /\ ~gate.passed
          /\ (GateAsked /\ ApiUnreachable) => ~GateRejected
    /\ (args.ciGate = "require" /\ GateAsked /\ GateAdmitted) =>
          WorkflowFound /\ gate.passed

NoApiError(resp) == resp.status # 0 /\ resp.status < 400

\* C6: _github_ci_gate passes exactly when both lookups answer without
\* error and the latest run is completed with conclusion success; every
\* other answer fails with a diagnostic note.  The runs lookup is made only
\* after the workflow lookup answered without error, and no call is made
\* twice.
C6_GateOutcome ==
    GateAsked =>
        LET calls == gate.calls
            r2    == calls[2].resp
        IN  /\ Len(calls) <= 2
            /\ calls[1].call = "workflow"
            /\ Len(calls) = 2 <=> NoApiError(calls[1].resp)
            /\ Len(calls) = 2 => calls[2].call = "runs"
            /\ gate.passed <=>
                  /\ Len(calls) = 2
                  /\ NoApiError(r2)
                  /\ r2.latest.present
                  /\ ToLower(r2.latest.status) = Completed
                  /\ ToLower(r2.latest.conclusion) = Success
            /\ ~gate.passed => gate.note.kind \notin {"", "latest run success"}

\* the gate failed a workflow whose latest run is still in progress
C6_Witness ==
    /\ GateAsked
    /\ Len(gate.calls) = 2
    /\ gate.calls[2].resp.latest.present
    /\ gate.calls[2].resp.latest.status = InProgress
    /\ gate.calls[2].resp.latest.conclusion = Success
    /\ ~gate.passed

PullCmd == Cmd("git pull --ff-only", <<>>, <<>>)
IsClone(c) == c.prog \in {"git clone", "git clone --depth 1"}

\* C7: when the destination already holds a .git checkout, clone/update
\* issues no git clone: the only command it can run is git pull --ff-only,
\* once, and a failed update is reported as a failure, with no fresh clone
\* after it.
C7_NoCloneOverCheckout ==
    [][(pc = "clone" /\ dirs[NameOf[urls[idx]]].exists /\ dirs[NameOf[urls[idx]]].git) =>
          /\ \A i \in 1..Len(ran') : ~IsClone(ran'[i])
          /\ ran' \in {<<>>, <<PullCmd>>}
          /\ cloneCmds' = ran'
          /\ pc' = "loop" =>
                /\ Last(results').status = "Failure"
                /\ Last(results').build_commands = ran']_vars

\* a failed update of an existing checkout: the record holds the pull alone
C7_Witness ==
    /\ pc = "loop"
    /\ results # <<>>
    /\ ran = <<PullCmd>>
    /\ Last(results).status = "Failure"
    /\ Last(results).detected = "Unknown"
    /\ Last(results).build_commands = <<PullCmd>>

Tags == {"Rust", "Python", "Node.js", "Docker", "Unknown"}

\* C8: _detect_repo_type answers the tag of the first rule that matches, in
\* the order Cargo.toml (Rust), pyproject.toml / requirements.txt / setup.py
\* (Python), package.json (Node.js), Dockerfile (Docker), the shallow scan
\* for Python files (Python), and Unknown when none does; so Cargo.toml
\* beside a Python marker is Rust.
C8_DetectFirstMatch ==
    Len(fnRes) = 1 =>
        LET repo   == fnArg.repo
            tag    == fnRes[1]
            rust   == CargoToml \in repo.files
            python == \E f \in {PyprojectToml, RequirementsTxt, SetupPy} : f \in repo.files
            node   == PackageJson \in repo.files
            docker == Dockerfile \in repo.files
            scan   == LooksLikePythonRepo(fnArg.name, repo)
        IN  /\ tag \in Tags
            /\ rust => tag = "Rust"
            /\ (~rust /\ python) => tag = "Python"
            /\ (~rust /\ ~python /\ node) => tag = "Node.js"
            /\ (~rust /\ ~python /\ ~node /\ docker) => tag = "Docker"
            /\ (~rust /\ ~python /\ ~node /\ ~docker /\ scan) => tag = "Python"
            /\ (~rust /\ ~python /\ ~node /\ ~docker /\ ~scan) => tag = "Unknown"

\* Cargo.toml beside requirements.txt and package.json: Rust
C8_Witness ==
    /\ fnRes = <<"Rust">>
    /\ {CargoToml, RequirementsTxt, PackageJson} \subseteq fnArg.repo.files

\* C9: name derivation is idempotent: deriving the name of a derived name
\* gives the derived name.
C9_Idempotent ==
    Len(fnRes) = 2 => fnRes[2] = fnRes[1]

\* C9, amended: deriving the name of a derived name gives the derived name,
\* unless the derived name itself ends in ".git" (the suffix is cut once
\* per derivation).
C9_IdempotentUnlessGitSuffix ==
    (Len(fnRes) = 2 /\ ~EndsWith(fnRes[1], GitSuffix)) => fnRes[2] = fnRes[1]

\* a name that was folded and cut, derived again
C9_Witness ==
    /\ Len(fnRes) = 2
    /\ fnArg = <<"a", "@", ".", "g", "i", "t", "/">>
    /\ fnRes[1] = <<"a", "_">>
    /\ fnRes[2] = fnRes[1]

\* C10: the derived name is never empty and holds only characters of
\* [A-Za-z0-9._-].
C10_SafeNonEmptyName ==
    \A i \in 1..Len(fnRes) :
        /\ fnRes[i] # <<>>
        /\ \A j \in 1..Len(fnRes[i]) : fnRes[i][j] \in SafeChar

\* a URL whose last segment is only ".git": the placeholder name
C10_Witness ==
    /\ Len(fnRes) >= 1
    /\ fnArg = <<"a", "/", ".", "g", "i", "t">>
    /\ fnRes[1] = DefaultName

C12_CommandListIsExecuted ==
    (pc \in {"loop", "done"} /\ results # <<>>) =>
        Last(results).build_commands = ran

CargoComponent == Cmd("cargo component build --release", <<>>, <<>>)
CargoPlain == Cmd("cargo build --release", <<>>, <<>>)

\* C13: with cargo on PATH, _rust_build runs cargo component build
\* --release first and cargo build --release only when the first exits
\* non-zero; it succeeds exactly when the preferred or the fallback command
\* exits zero; each command is run at most once, and the commands run are
\* the commands listed.
C13_RustPreferredThenFallback ==
    (Len(fnRes) = 1 /\ fnArg.cargo) =>
        LET b == fnRes[1]
        IN  /\ b.ran = IF fnArg.r1.code = 0 THEN <<CargoComponent>>
                       ELSE <<CargoComponent, CargoPlain>>
            /\ b.cmds = b.ran
            /\ b.ok <=> (fnArg.r1.code = 0 \/ fnArg.r2.code = 0)
            /\ b.ok <=> b.err = NoError

\* the preferred build failed and the fallback succeeded
C13_Witness ==
    /\ Len(fnRes) = 1
    /\ fnArg.cargo
    /\ fnArg.r1.code = 101
    /\ fnArg.r2.code = 0
    /\ fnRes[1].ok
    /\ fnRes[1].ran = <<CargoComponent, CargoPlain>>

\* the install commands of _python_build, by the descriptor they install from
InstallFamily ==
    [prog \in {"<venv python> -m pip install -r requirements.txt", "poetry install",
               "pipenv install", "<venv python> -m pip install -e .",
               "<venv python> -m pip install ."} |->
        CASE prog = "<venv python> -m pip install -r requirements.txt" -> "requirements.txt"
          [] prog = "poetry install" -> "poetry.lock"
          [] prog = "pipenv install" -> "Pipfile"
          [] OTHER -> "pyproject.toml/setup.py"]
IsInstall(c) == c.prog \in DOMAIN InstallFamily
FamiliesRun(b) == {InstallFamily[b.ran[i].prog] : i \in {j \in 1..Len(b.ran) : IsInstall(b.ran[j])}}
\* the build's last command is an install command, and it exited with zero
FinalInstallOk(b, e) ==
    /\ b.ran # <<>>
    /\ IsInstall(Last(b.ran))
    /\ IF Last(b.ran).prog = "<venv python> -m pip install ."
       THEN e.inst2.code = 0 ELSE e.inst.code = 0
HasDescriptor(repo) ==
    \E f \in {RequirementsTxt, PoetryLock, Pipfile, PyprojectToml, SetupPy} : f \in repo.files
\* the virtual environment exists or was created, and the pip upgrade exited
\* with zero
VenvReady(a) == (a.venv \/ a.e.mkvenv.code = 0) /\ a.e.pip.code = 0

\* C14: a Python build succeeds if the final install command exits zero,
\* or if no recognized dependency descriptor (requirements.txt, poetry.lock,
\* Pipfile, pyproject.toml, setup.py) is present.
C14_PythonBuildSucceeds ==
    Len(fnRes) = 1 =>
        /\ FinalInstallOk(fnRes[1], fnArg.e) => fnRes[1].ok
        /\ ~HasDescriptor(fnArg.repo) => fnRes[1].ok

\* C14, amended: a Python build whose virtual environment exists or was
\* created and whose pip upgrade exited zero succeeds if the final install
\* command exits zero, or if no recognized dependency descriptor is present,
\* in which case no install command is run; a build whose virtual
\* environment could not be created or whose pip upgrade failed fails, with
\* no install command run.
C14_PythonBuildSucceedsOnceReady ==
    Len(fnRes) = 1 =>
        /\ FinalInstallOk(fnRes[1], fnArg.e) => fnRes[1].ok
        /\ (VenvReady(fnArg) /\ ~HasDescriptor(fnArg.repo)) =>
              fnRes[1].ok /\ FamiliesRun(fnRes[1]) = {}
        /\ ~VenvReady(fnArg) => ~fnRes[1].ok /\ FamiliesRun(fnRes[1]) = {}

\* setup.py alone: the editable install failed, the plain install succeeded
C14_Witness ==
    /\ Len(fnRes) = 1
    /\ fnArg.repo.files = {SetupPy}
    /\ fnArg.e.inst.code # 0
    /\ Last(fnRes[1].ran).prog = "<venv python> -m pip install ."
    /\ FinalInstallOk(fnRes[1], fnArg.e)
    /\ fnRes[1].ok

\* the line pins numpy==1.23.<n>
PinsNumpy(q) ==
    /\ ToLower(q.name) = <<"n","u","m","p","y">>
    /\ q.op \in PinOperators
    /\ q.version \in PinVersions
\* the pre-flight check stops the build: the pin, and Python 3.12 or later
NumpyBlocked(a) ==
    /\ RequirementsTxt \in a.repo.files
    /\ PinsNumpy(a.repo.requirement)
    /\ a.e.ver \in {<<3, 12>>, <<4, 0>>}
\* the descriptors present, and those an install can be run from, in the
\* order of their priority
PresentFamilies(a) ==
    <<RequirementsTxt \in a.repo.files, PoetryLock \in a.repo.files, Pipfile \in a.repo.files,
      PyprojectToml \in a.repo.files \/ SetupPy \in a.repo.files>>
UsableFamilies(a) ==
    <<RequirementsTxt \in a.repo.files, PoetryLock \in a.repo.files /\ a.e.poetry,
      Pipfile \in a.repo.files /\ a.e.pipenv,
      PyprojectToml \in a.repo.files \/ SetupPy \in a.repo.files>>
FamilyNames == <<"requirements.txt", "poetry.lock", "Pipfile", "pyproject.toml/setup.py">>
\* the first family of fs, as a set: empty when there is none
FirstOf(fs) ==
    {FamilyNames[i] : i \in {j \in 1..4 : fs[j] /\ \A k \in 1..(j - 1) : ~fs[k]}}

\* C15: _python_build installs from the first descriptor present, in the
\* order requirements.txt, poetry.lock, Pipfile, pyproject.toml/setup.py:
\* a build that reaches the install step with a descriptor present runs
\* exactly the install family of the first one present, never a later one.
C15_FirstDescriptorWins ==
    (Len(fnRes) = 1 /\ VenvReady(fnArg) /\ ~NumpyBlocked(fnArg) /\ HasDescriptor(fnArg.repo)) =>
        FamiliesRun(fnRes[1]) = FirstOf(PresentFamilies(fnArg))

\* C15, amended: poetry.lock and Pipfile count only when poetry,
\* respectively pipenv, is on PATH.  A build that reaches the install step
\* runs exactly the install family of the first descriptor, in the order
\* requirements.txt, poetry.lock, Pipfile, pyproject.toml/setup.py, that is
\* present and usable, and none when there is no such descriptor; a build
\* that does not reach the install step runs none.  So at most one install
\* family is run per build.
C15_FirstUsableDescriptorWins ==
    Len(fnRes) = 1 =>
        /\ FamiliesRun(fnRes[1]) =
              IF VenvReady(fnArg) /\ ~NumpyBlocked(fnArg)
              THEN FirstOf(UsableFamilies(fnArg)) ELSE {}
        /\ Cardinality(FamiliesRun(fnRes[1])) <= 1

\* poetry.lock without poetry on PATH, beside a Pipfile and pyproject.toml:
\* pipenv install is run
C15_Witness ==
    /\ Len(fnRes) = 1
    /\ fnArg.repo.files = {PoetryLock, Pipfile, PyprojectToml}
    /\ ~fnArg.e.poetry
    /\ fnArg.e.pipenv
    /\ FamiliesRun(fnRes[1]) = {"Pipfile"}

PipInstallRequirements == "<venv python> -m pip install -r requirements.txt"
RanRequirements(b) == \E i \in 1..Len(b.ran) : b.ran[i].prog = PipInstallRequirements

IsGit(c) == c = PullCmd \/ IsClone(c)

\* C17: with --no-build no build or install command is ever run: the only
\* commands run are git pull and git clone, and no virtual environment is
\* made.  A URL whose clone/update succeeded gets a record with status
\* Skipped, the tag detected in its checkout and the clone/update commands
\* alone; a URL whose clone/update failed gets status Failure.
C17_NoBuild ==
    [][args.noBuild =>
          /\ \A i \in 1..Len(ran') : IsGit(ran'[i])
          /\ venvs' = venvs
          /\ pc = "build" =>
                /\ results' = Append(results, Last(results'))
                /\ Last(results').url = urls[idx]
                /\ Last(results').status = "Skipped"
                /\ Last(results').error = NoError
                /\ Last(results').detected =
                      DetectRepoType(NameOf[urls[idx]], dirs[NameOf[urls[idx]]])
                /\ Last(results').build_commands = cloneCmds
                /\ cloneCmds = ran /\ Len(ran) = 1 /\ ran' = ran
          /\ (pc = "clone" /\ pc' = "loop") =>
                /\ Last(results').status = "Failure"
                /\ Last(results').url = urls[idx]]_vars

\* --no-build: a Rust checkout recorded as Skipped with its clone command,
\* then a URL whose clone failed
C17_Witness ==
    /\ Done
    /\ args.noBuild
    /\ Len(results) = 2
    /\ results[1].status = "Skipped"
    /\ results[1].detected = "Rust"
    /\ Len(results[1].build_commands) = 1
    /\ IsClone(results[1].build_commands[1])
    /\ results[2].status = "Failure"
    /\ results[2].detected = "Unknown"

\* C18: the steps of a URL are ordered and gated.  Clone/update is
\* attempted only for a URL that was not skipped and that the gate did not
\* reject; detection and build only after clone/update succeeded; commands
\* are run in the clone/update and build steps only.  A rejected URL gets
\* the record (CI Gate, Failure, no commands); a failed clone/update the
\* record (Unknown, Failure, the clone/update commands alone); without git
\* on PATH no command is run and the destination directory is not made.
C18_StepsOrderedAndGated ==
    [][/\ pc' = "clone" =>
             /\ pc = "gate"
             /\ ~SkipMatch(urls[idx])
             /\ (args.ciGate = "require" /\ GateAsked') => gate'.exists /\ gate'.passed
             /\ (args.ciGate = "auto" /\ GateAsked') => ~(gate'.exists /\ ~gate'.passed)
       /\ pc' = "build" =>
             /\ pc = "clone"
             /\ gitOnPath
             /\ Len(ran') = 1 /\ IsGit(ran'[1])
             /\ dirs'[NameOf[urls[idx]]].exists /\ dirs'[NameOf[urls[idx]]].git
       /\ Len(ran') > Len(ran) => pc \in {"clone", "build"}
       /\ dirs' # dirs => pc = "clone"
       /\ (pc = "gate" /\ pc' = "loop") =>
             /\ Last(results') = RepoResult(NameOf[urls[idx]], urls[idx], "CI Gate", <<>>,
                                            "Failure", ErrNote(gate'.note))
             /\ ran' = <<>>
       /\ (pc = "clone" /\ pc' = "loop") =>
             /\ Last(results').detected = "Unknown"
             /\ Last(results').status = "Failure"
             /\ Last(results').build_commands = ran'
             /\ \A i \in 1..Len(ran') : IsGit(ran'[i])
       /\ (pc = "clone" /\ ~gitOnPath) =>
             /\ pc' = "loop"
             /\ ran' = <<>>
             /\ dirs' = dirs
             /\ Last(results').build_commands = <<>>]_vars

\* without git: the first URL has a Failure record with no commands and no
\* destination directory, and the second URL was rejected by the gate
C18_Witness ==
    /\ Done
    /\ ~gitOnPath
    /\ Len(results) = 2
    /\ results[1].detected = "Unknown"
    /\ results[1].build_commands = <<>>
    /\ ~dirs[results[1].name].exists
    /\ results[2].detected = "CI Gate"
    /\ results[2].status = "Failure"

\* C19: a record with status Success or Skipped has no error (None) and a
\* record with status Failure has one (not None, though it may be the
\* empty output of a command); the list of records only grows by appending
\* one record, and a record in the list is never changed.
C19_ErrorsAndAppendOnly ==
    [][/\ \A i \in 1..Len(results') :
             /\ results'[i].status \in {"Success", "Skipped", "Failure"}
             /\ results'[i].status \in {"Success", "Skipped"} => results'[i].error = NoError
             /\ results'[i].status = "Failure" => results'[i].error.kind # "None"
       /\ \/ results' = results
          \/ /\ Len(results') = Len(results) + 1
             /\ SubSeq(results', 1, Len(results)) = results]_vars

\* a clone that failed without output, then a successful build: the first
\* record keeps its (empty) error when the second is appended
C19_Witness ==
    /\ Len(results) = 2
    /\ results[1].status = "Failure"
    /\ results[1].error = ErrTail("", 0)
    /\ results[2].status = "Success"
    /\ results[2].error = NoError

\* the record of a URL whose clone succeeded
Cloned(r) ==
    /\ r.build_commands # <<>>
    /\ IsClone(r.build_commands[1])
    /\ ~(r.detected = "Unknown" /\ r.status = "Failure")
\* the record of a URL that got as far as clone/update, and past it
Attempted(r) == r.detected \notin {"Skipped", "CI Gate"}
Updated(r) == Attempted(r) /\ ~(r.detected = "Unknown" /\ r.status = "Failure")

\* C20: two different URLs of a run that derive the same name share one
\* destination directory.  When the first one's clone succeeded, the second
\* is never cloned: the one git command run for it is git pull --ff-only in
\* the first one's checkout, and its record carries, under the second URL,
\* the first one's destination and the tag detected in that checkout
\* (whose origin is the first URL).
C20_SameNameSharesCheckout ==
    \A j \in 1..Len(results) : \A i \in 1..(j - 1) :
        (/\ results[i].name = results[j].name
         /\ results[i].url # results[j].url
         /\ Cloned(results[i])) =>
            /\ results[j].dest_dir = results[i].dest_dir
            /\ \A k \in 1..Len(results[j].build_commands) :
                  ~IsClone(results[j].build_commands[k])
            /\ Attempted(results[j]) => results[j].build_commands[1] = PullCmd
            /\ dirs[results[j].name].origin = results[i].url
            /\ (j = Len(results) /\ pc \in {"loop", "gate", "clone", "done"}
                   /\ Updated(results[j])) =>
                  results[j].detected = DetectRepoType(results[j].name, dirs[results[j].name])

\* the gitlab URL after the github URL of the same name: pulled in the
\* checkout of the first, and recorded with that checkout's tag
C20_Witness ==
    /\ Done
    /\ Len(results) = 2
    /\ results[1].url = U1 /\ Cloned(results[1])
    /\ results[2].url = U2 /\ results[2].name = results[1].name
    /\ results[2].build_commands[1] = PullCmd
    /\ results[2].status = "Success"
    /\ results[2].detected = "Node.js"
    /\ dirs[results[2].name].origin = U1

====
